---- MODULE Spec2Model ----
(***************************************************************************)
(* The two request handlers of the serverless CRUD API and the table they  *)
(* talk to.                                                                *)
(*   variant "A": lambda_functions/notes_handler.py  (noteId, content)      *)
(*   variant "B": lambda_src/api_handler.py          (itemID, name,         *)
(*                                                    description)          *)
(* An invocation is a process: lambda_handler receives the event, routes   *)
(* and validates it, and every call to the table is one atomic step of the *)
(* store, so that concurrent invocations interleave at the table calls.    *)
(***************************************************************************)
EXTENDS Integers, Sequences, FiniteSets, TLC

\* ------------------------------------------------------------------ bounds
\* How many identifiers uuid.uuid4() can hand out in one behaviour.
MaxIds == 2
\* How many records one page of table.scan() carries.
PageSize == 1

Procs == {"p1", "p2"}
Variants == {"A", "B"}

IdPool == <<"u1", "u2", "u3", "u4">>
UUIDs == {IdPool[i] : i \in 1..MaxIds}
\* An identifier a caller sends that uuid.uuid4() never returns.
Stranger == "zz"
PathIds == UUIDs \cup {Stranger}
\* The event's pathParameters being null, instead of an object.
NoParameters == "null"
\* The position of a key in the order table.scan() walks the table in.
Rank(id) == IF id = Stranger THEN 0 ELSE CHOOSE i \in 1..Len(IdPool) : IdPool[i] = id

\* ------------------------------------------------------------ Python values
\* A value is <<its Python type, its text>>.
PyStr(s) == <<"str", s>>
PyInt(s) == <<"int", s>>
PyFloat(s) == <<"float", s>>
PyDecimal(s) == <<"Decimal", s>>
None == <<"NoneType", "">>

Attrs == {"noteId", "content", "itemID", "name", "description"}
\* The dict {}: d.get(a) is None for every a.
EmptyDict == [a \in Attrs |-> None]

KeyAttr(v) == IF v = "A" THEN "noteId" ELSE "itemID"
Required(v) == IF v = "A" THEN {"content"} ELSE {"name", "description"}

\* bool(x) of a value: None, '' and 0 are false.
Truthy(x) == x # None /\ x[2] # "" /\ x # PyInt("0")

\* Python objects the handlers return or serialise: a dict (a record or a
\* message), a list of records, or None.
PyDict(d) == [type |-> "dict", items |-> <<d>>, message |-> ""]
PyMessage(m) == [type |-> "dict", items |-> <<EmptyDict>>, message |-> m]
PyList(s) == [type |-> "list", items |-> s, message |-> ""]
PyNone == [type |-> "NoneType", items |-> <<>>, message |-> ""]
\* bool(obj): an empty dict, an empty list and None are false.
TruthyObj(o) ==
    CASE o.type = "dict" -> o.items[1] # EmptyDict \/ o.message # ""
      [] o.type = "list" -> o.items # <<>>
      [] OTHER -> FALSE

\* ------------------------------------------------------------------- JSON
\* A JSON text is modelled by its structure; '' is the empty string, which
\* is no JSON text at all.
EmptyString == [type |-> "", items |-> <<>>, message |-> ""]

\* json.JSONEncoder.default formats str as a JSON string, int and float as a
\* JSON number, and has no encoding for Decimal.
JsonValue(x) ==
    CASE x[1] = "str" -> <<"string", x[2]>>
      [] x[1] \in {"int", "float"} -> <<"number", x[2]>>
      [] OTHER -> <<"null", "">>

\* DecimalEncoder.default: a Decimal is written as the string str(o).
DecimalEncoder(x) == IF x[1] = "Decimal" THEN <<"string", x[2]>> ELSE JsonValue(x)

HasDecimal(o) == \E i \in 1..Len(o.items) : \E a \in Attrs : o.items[i][a][1] = "Decimal"

\* json.dumps(obj) / json.dumps(obj, cls=DecimalEncoder): [exc, text].
json_dumps(o, cls) ==
    IF cls # "DecimalEncoder" /\ HasDecimal(o)
    THEN [exc |-> "TypeError", text |-> EmptyString]
    ELSE [exc |-> "",
          text |-> [type |-> CASE o.type = "dict" -> "object"
                               [] o.type = "list" -> "array"
                               [] OTHER -> "null",
                    items |-> [i \in 1..Len(o.items) |->
                                 [a \in Attrs |-> IF cls = "DecimalEncoder"
                                                  THEN DecimalEncoder(o.items[i][a])
                                                  ELSE JsonValue(o.items[i][a])]],
                    message |-> o.message]]

\* A raw request body: None, no 'body' key in the event, '', a text that is
\* not JSON, a JSON array, a JSON number, or a JSON object with fields.
Body(kind, fields) == [kind |-> kind, fields |-> fields]

\* json.loads(s): [exc, type, fields].
json_loads(s) ==
    CASE s.kind = "None" -> [exc |-> "TypeError", type |-> "", fields |-> EmptyDict]
      [] s.kind \in {"empty", "malformed"} ->
             [exc |-> "JSONDecodeError", type |-> "", fields |-> EmptyDict]
      [] s.kind = "array" -> [exc |-> "", type |-> "list", fields |-> EmptyDict]
      [] s.kind = "number" -> [exc |-> "", type |-> "int", fields |-> EmptyDict]
      [] OTHER -> [exc |-> "", type |-> "dict", fields |-> s.fields]

\* ------------------------------------------------------------------ state
VARIABLES
    variant,    \* which handler is deployed in front of the table
    table,      \* the table: identifier |-> stored record, for the keys present
    generated,  \* the identifiers uuid.uuid4() has returned so far
    inv,        \* per invocation: where it stands, its event, locals, response
    history     \* per identifier: what the requests on it have returned so far

vars == <<variant, table, generated, inv, history>>

\* --------------------------------------------------------------- the table
\* boto3 writes a Python int as a DynamoDB Number and reads every Number
\* back as a Decimal; strings come back as they went in.
Stored(item) ==
    [a \in Attrs |-> IF item[a][1] = "int" THEN PyDecimal(item[a][2]) ELSE item[a]]

\* What a table call gives back: the exception it raised (with the error
\* code of a ClientError), the table after it, and its output.
StoreResult(exc, code, tbl, item, items, lek) ==
    [exc |-> exc, code |-> code, table |-> tbl, item |-> item, items |-> items, lek |-> lek]
\* Any table call can fail for a reason of the store's own (throttling, an
\* outage, missing permissions); the table is then as it was.
StoreFailure(tbl) == StoreResult("ClientError", "InternalServerError", tbl, EmptyDict, <<>>, "")
\* boto3 serialises the values of a call before it sends anything, and has
\* no DynamoDB type for a Python float: TypeError, the table is not reached.
Unserializable(item) == \E a \in Attrs : item[a][1] = "float"
NotSerialized(tbl) == StoreResult("TypeError", "", tbl, EmptyDict, <<>>, "")

\* table.put_item(Item=item): insert or overwrite, unconditionally.
table_put_item(tbl, key, item, fault) ==
    IF Unserializable(item) THEN NotSerialized(tbl)
    ELSE IF fault THEN StoreFailure(tbl)
    ELSE StoreResult("", "", [k \in DOMAIN tbl \cup {key} |-> IF k = key THEN Stored(item) ELSE tbl[k]],
                     EmptyDict, <<>>, "")

\* table.get_item(Key=...): the output has no 'Item' when the key is absent.
table_get_item(tbl, key, fault) ==
    IF fault THEN StoreFailure(tbl)
    ELSE StoreResult("", "", tbl, IF key \in DOMAIN tbl THEN tbl[key] ELSE EmptyDict, <<>>, "")

\* The record an update leaves under key: the SET assignments applied to
\* the record that is there, or to a new record holding only the key.
Assigned(tbl, keyattr, key, sets) ==
    LET old == IF key \in DOMAIN tbl THEN tbl[key]
               ELSE [EmptyDict EXCEPT ![keyattr] = PyStr(key)]
    IN [a \in Attrs |-> IF sets[a] # None THEN Stored(sets)[a] ELSE old[a]]

\* table.update_item without the ConditionExpression: DynamoDB's default,
\* which writes the record whether or not the key is there.
table_update_item_upsert(tbl, keyattr, key, sets, fault) ==
    IF Unserializable(sets) THEN NotSerialized(tbl)
    ELSE IF fault THEN StoreFailure(tbl)
    ELSE LET new == Assigned(tbl, keyattr, key, sets)
         IN StoreResult("", "", [k \in DOMAIN tbl \cup {key} |-> IF k = key THEN new ELSE tbl[k]],
                        new, <<>>, "")

\* table.update_item(Key, UpdateExpression="SET ...", ReturnValues="ALL_NEW",
\* ConditionExpression="attribute_exists(<key>)"): the check and the write
\* are one step of the store.
table_update_item(tbl, keyattr, key, sets, fault) ==
    IF Unserializable(sets) THEN NotSerialized(tbl)
    ELSE IF fault THEN StoreFailure(tbl)
    ELSE IF key \notin DOMAIN tbl
    THEN StoreResult("ClientError", "ConditionalCheckFailedException", tbl, EmptyDict, <<>>, "")
    ELSE LET new == Assigned(tbl, keyattr, key, sets)
         IN StoreResult("", "", [tbl EXCEPT ![key] = new], new, <<>>, "")

\* table.delete_item(Key, ReturnValues="NONE"): variant A, no condition.
table_delete_item(tbl, key, fault) ==
    IF fault THEN StoreFailure(tbl)
    ELSE StoreResult("", "", [k \in DOMAIN tbl \ {key} |-> tbl[k]], EmptyDict, <<>>, "")

\* table.delete_item without the ConditionExpression, in variant B.
table_delete_item_unconditional(tbl, key, fault) ==
    IF fault THEN StoreFailure(tbl)
    ELSE StoreResult("", "", [k \in DOMAIN tbl \ {key} |-> tbl[k]], EmptyDict, <<>>, "")

\* table.delete_item(Key, ConditionExpression="attribute_exists(itemID)"):
\* variant B.
table_delete_item_if_exists(tbl, key, fault) ==
    IF fault THEN StoreFailure(tbl)
    ELSE IF key \notin DOMAIN tbl
    THEN StoreResult("ClientError", "ConditionalCheckFailedException", tbl, EmptyDict, <<>>, "")
    ELSE StoreResult("", "", [k \in DOMAIN tbl \ {key} |-> tbl[k]], EmptyDict, <<>>, "")

\* The keys of tbl after start (all of them for start = ""), in scan order.
RECURSIVE InOrder(_)
InOrder(ks) ==
    IF ks = {} THEN <<>>
    ELSE LET k == CHOOSE x \in ks : \A y \in ks : Rank(x) <= Rank(y)
         IN <<k>> \o InOrder(ks \ {k})
KeysAfter(tbl, start) ==
    InOrder({k \in DOMAIN tbl : start = "" \/ Rank(k) > Rank(start)})

\* table.scan() / table.scan(ExclusiveStartKey=start): one page, and a
\* LastEvaluatedKey when records remain after it.
table_scan(tbl, start, fault) ==
    IF fault THEN StoreFailure(tbl)
    ELSE LET rest == KeysAfter(tbl, start)
             n == IF Len(rest) < PageSize THEN Len(rest) ELSE PageSize
         IN StoreResult("", "", tbl, EmptyDict, [i \in 1..n |-> tbl[rest[i]]],
                        IF Len(rest) > n THEN rest[n] ELSE "")

\* ------------------------------------------------- what a handler does next
\* A handler runs until it returns a response, raises, or calls the table.
NoResponse == [statusCode |-> 0, headers |-> {}, body |-> EmptyString]
Return(r) == [kind |-> "return", exc |-> "", code |-> "", api |-> "", key |-> "",
              item |-> EmptyDict, response |-> r]
Raise(e, c) == [kind |-> "raise", exc |-> e, code |-> c, api |-> "", key |-> "",
                item |-> EmptyDict, response |-> NoResponse]
Call(api, key, item) == [kind |-> "call", exc |-> "", code |-> "", api |-> api, key |-> key,
                         item |-> item, response |-> NoResponse]

\* ------------------------------------------ variant B: lambda_src/api_handler
HeadersB == {"Content-Type", "Access-Control-Allow-Origin",
             "Access-Control-Allow-Headers", "Access-Control-Allow-Methods"}

\* build_response(status_code, body): the body is json.dumps(body), always.
build_response(status_code, body) ==
    LET d == json_dumps(body, "JSONEncoder")
    IN IF d.exc # "" THEN Raise(d.exc, "")
       ELSE Return([statusCode |-> status_code, headers |-> HeadersB, body |-> d.text])

\* event.get('body', '{}'): the default only when the event has no 'body'.
event_get_body(event) ==
    IF event.body.kind = "absent" THEN Body("object", EmptyDict) ELSE event.body

\* create_item building the record with its two fields exchanged.
create_item_swapped(event, uuid) ==
    LET body == json_loads(event_get_body(event))
        name == body.fields["name"]
        description == body.fields["description"]
    IN IF body.exc = "JSONDecodeError"
       THEN build_response(400, PyMessage("Invalid JSON body"))
       ELSE IF body.exc # "" THEN Raise(body.exc, "")
       ELSE IF body.type # "dict" THEN Raise("AttributeError", "")
       ELSE IF ~Truthy(name) \/ ~Truthy(description)
       THEN build_response(400, PyMessage("Missing required fields: 'name' and 'description'"))
       ELSE Call("put_item", uuid,
                 [EmptyDict EXCEPT !["itemID"] = PyStr(uuid), !["name"] = description,
                                   !["description"] = name])

\* create_item, up to table.put_item.
create_item(event, uuid) ==
    LET body == json_loads(event_get_body(event))
        name == body.fields["name"]
        description == body.fields["description"]
    IN IF body.exc = "JSONDecodeError"
       THEN build_response(400, PyMessage("Invalid JSON body"))
       ELSE IF body.exc # "" THEN Raise(body.exc, "")
       ELSE IF body.type # "dict" THEN Raise("AttributeError", "")
       ELSE IF ~Truthy(name) \/ ~Truthy(description)
       THEN build_response(400, PyMessage("Missing required fields: 'name' and 'description'"))
       ELSE Call("put_item", uuid,
                 [EmptyDict EXCEPT !["itemID"] = PyStr(uuid), !["name"] = name,
                                   !["description"] = description])

\* create_item, from the return of table.put_item.
create_item_return(item, res) ==
    IF res.exc # "" THEN Raise(res.exc, res.code) ELSE build_response(201, PyDict(item))

\* get_item, from the return of table.get_item.
get_item_return(item_id, res) ==
    IF res.exc # "" THEN Raise(res.exc, res.code)
    ELSE IF res.item # EmptyDict THEN build_response(200, PyDict(res.item))
    ELSE build_response(404, PyMessage("Item not found"))

\* update_item without the check of the required fields.
update_item_unchecked(item_id, event) ==
    LET body == json_loads(event_get_body(event))
        name == body.fields["name"]
        description == body.fields["description"]
    IN IF body.exc = "JSONDecodeError"
       THEN build_response(400, PyMessage("Invalid JSON body"))
       ELSE IF body.exc # "" THEN Raise(body.exc, "")
       ELSE IF body.type # "dict" THEN Raise("AttributeError", "")
       ELSE Call("update_item", item_id,
                 [EmptyDict EXCEPT !["name"] = name, !["description"] = description])

\* update_item, up to table.update_item.
update_item(item_id, event) ==
    LET body == json_loads(event_get_body(event))
        name == body.fields["name"]
        description == body.fields["description"]
    IN IF body.exc = "JSONDecodeError"
       THEN build_response(400, PyMessage("Invalid JSON body"))
       ELSE IF body.exc # "" THEN Raise(body.exc, "")
       ELSE IF body.type # "dict" THEN Raise("AttributeError", "")
       ELSE IF ~Truthy(name) \/ ~Truthy(description)
       THEN build_response(400, PyMessage("Missing required fields: 'name' and 'description'"))
       ELSE Call("update_item", item_id,
                 [EmptyDict EXCEPT !["name"] = name, !["description"] = description])

\* update_item, from the return of table.update_item.
update_item_return(res) ==
    IF res.exc # "" THEN Raise(res.exc, res.code) ELSE build_response(200, PyDict(res.item))

\* delete_item answering a failed condition like a delete that took place.
delete_item_return_idempotent(item_id, res) ==
    IF res.exc = "" THEN build_response(204, PyDict(EmptyDict))
    ELSE IF res.exc = "ClientError" /\ res.code = "ConditionalCheckFailedException"
    THEN build_response(204, PyDict(EmptyDict))
    ELSE Raise(res.exc, res.code)

\* delete_item answering every ClientError with 404, whatever its code.
delete_item_return_any_error(item_id, res) ==
    IF res.exc = "" THEN build_response(204, PyDict(EmptyDict))
    ELSE IF res.exc = "ClientError"
    THEN build_response(404, PyMessage("Item not found"))
    ELSE Raise(res.exc, res.code)

\* delete_item, from the return of table.delete_item.
delete_item_return(item_id, res) ==
    IF res.exc = "" THEN build_response(204, PyDict(EmptyDict))
    ELSE IF res.exc = "ClientError" /\ res.code = "ConditionalCheckFailedException"
    THEN build_response(404, PyMessage("Item not found"))
    ELSE Raise(res.exc, res.code)

\* get_all_items, from the return of the last table.scan.
get_all_items_return(items) == build_response(200, PyList(items))

\* lambda_handler with the except clause for ClientError only.
api_handler_except_client_error(step) ==
    IF step.kind # "raise" THEN step
    ELSE IF step.exc = "ClientError"
    THEN build_response(500, PyMessage("Internal Server Error (Database)"))
    ELSE step

\* lambda_handler answering a failed condition with 404, as delete_item does.
api_handler_except_not_found(step) ==
    IF step.kind # "raise" THEN step
    ELSE IF step.exc = "ClientError" /\ step.code = "ConditionalCheckFailedException"
    THEN build_response(404, PyMessage("Item not found"))
    ELSE IF step.exc = "ClientError"
    THEN build_response(500, PyMessage("Internal Server Error (Database)"))
    ELSE build_response(500, PyMessage("Internal Server Error"))

\* lambda_handler's except clauses: a ClientError and any other exception
\* both become a 500.
api_handler_except(step) ==
    IF step.kind # "raise" THEN step
    ELSE IF step.exc = "ClientError"
    THEN build_response(500, PyMessage("Internal Server Error (Database)"))
    ELSE build_response(500, PyMessage("Internal Server Error"))

\* lambda_handler: routing on event['resource'] and event['httpMethod'].
api_handler_lambda_handler(event, uuid) ==
    api_handler_except(
        IF event.resource = "collection"
        THEN IF event.httpMethod = "POST" THEN create_item(event, uuid)
             ELSE IF event.httpMethod = "GET" THEN Call("scan", "", EmptyDict)
             ELSE build_response(405, PyMessage("Method Not Allowed on /items"))
        ELSE IF event.resource = "item"
        THEN IF event.id = NoParameters THEN Raise("AttributeError", "")
             ELSE IF event.id = "" THEN build_response(400, PyMessage("Missing itemID path parameter"))
             ELSE IF event.httpMethod = "GET" THEN Call("get_item", event.id, EmptyDict)
             ELSE IF event.httpMethod = "PUT" THEN update_item(event.id, event)
             ELSE IF event.httpMethod = "DELETE" THEN Call("delete_item", event.id, EmptyDict)
             ELSE build_response(405, PyMessage("Method Not Allowed on /items/{itemID}"))
        ELSE build_response(404, PyMessage("Resource Not Found")))

\* -------------------------------------- variant A: lambda_functions/notes_handler
HeadersA == {"Content-Type", "Access-Control-Allow-Origin",
             "Access-Control-Allow-Methods", "Access-Control-Allow-Headers"}

\* The response lambda_handler assembles: the body is '' when response_body
\* is false, json.dumps(response_body, cls=DecimalEncoder) otherwise.
notes_response(status_code, response_body) ==
    Return([statusCode |-> status_code, headers |-> HeadersA,
            body |-> IF TruthyObj(response_body)
                     THEN json_dumps(response_body, "DecimalEncoder").text
                     ELSE EmptyString])

\* The checks create_note and update_note both start with; "" when they pass.
note_body_error(body_str) ==
    LET data == json_loads(body_str)
    IN IF body_str.kind \in {"None", "absent", "empty"} THEN "ValueError"
       ELSE IF data.exc # "" THEN data.exc
       ELSE IF data.type = "int" THEN "TypeError"
       ELSE IF data.type # "dict" \/ data.fields["content"] = None THEN "ValueError"
       ELSE ""

\* create_note building the record without the content.
create_note_identifier_only(body_str, uuid) ==
    IF note_body_error(body_str) # "" THEN Raise(note_body_error(body_str), "")
    ELSE Call("put_item", uuid, [EmptyDict EXCEPT !["noteId"] = PyStr(uuid)])

\* create_note, up to table.put_item.
create_note(body_str, uuid) ==
    IF note_body_error(body_str) # "" THEN Raise(note_body_error(body_str), "")
    ELSE Call("put_item", uuid,
              [EmptyDict EXCEPT !["noteId"] = PyStr(uuid),
                                !["content"] = json_loads(body_str).fields["content"]])

\* update_note setting every field of the body, not only content.
update_note_all_fields(note_id, body_str) ==
    IF note_body_error(body_str) # "" THEN Raise(note_body_error(body_str), "")
    ELSE Call("update_item", note_id, json_loads(body_str).fields)

\* update_note, up to table.update_item.
update_note(note_id, body_str) ==
    IF note_body_error(body_str) # "" THEN Raise(note_body_error(body_str), "")
    ELSE Call("update_item", note_id,
              [EmptyDict EXCEPT !["content"] = json_loads(body_str).fields["content"]])

\* lambda_handler's except clauses: only json.JSONDecodeError is a 400, any
\* other exception (a ValueError too) is a 500.
notes_handler_except(step) ==
    IF step.kind # "raise" THEN step
    ELSE IF step.exc = "JSONDecodeError"
    THEN Return([statusCode |-> 400, headers |-> HeadersA,
                 body |-> json_dumps(PyMessage("Invalid JSON format in request body"),
                                     "JSONEncoder").text])
    ELSE Return([statusCode |-> 500, headers |-> HeadersA,
                 body |-> json_dumps(PyMessage("Internal Server Error"), "JSONEncoder").text])

\* note_id in lambda_handler: the noteId path parameter, "" (None in the code) when the event
\* has no path parameters or no noteId among them.
path_note_id(event) == IF event.id = NoParameters THEN "" ELSE event.id

\* lambda_handler routing a POST to create_note whatever its path.
notes_handler_lambda_handler_any_post(event, uuid) ==
    notes_handler_except(
        IF event.httpMethod = "POST"
        THEN create_note(event.body, uuid)
        ELSE IF event.httpMethod = "GET" /\ event.resource = "collection"
        THEN Call("scan", "", EmptyDict)
        ELSE IF event.httpMethod = "GET" /\ path_note_id(event) # ""
        THEN Call("get_item", path_note_id(event), EmptyDict)
        ELSE IF event.httpMethod = "PUT" /\ path_note_id(event) # ""
        THEN update_note(path_note_id(event), event.body)
        ELSE IF event.httpMethod = "DELETE" /\ path_note_id(event) # ""
        THEN Call("delete_item", path_note_id(event), EmptyDict)
        ELSE notes_response(400, PyMessage("Unsupported route or method")))

\* lambda_handler: routing on httpMethod, path == '/notes' and the noteId
\* path parameter.
notes_handler_lambda_handler(event, uuid) ==
    notes_handler_except(
        IF event.httpMethod = "POST" /\ event.resource = "collection"
        THEN create_note(event.body, uuid)
        ELSE IF event.httpMethod = "GET" /\ event.resource = "collection"
        THEN Call("scan", "", EmptyDict)
        ELSE IF event.httpMethod = "GET" /\ path_note_id(event) # ""
        THEN Call("get_item", path_note_id(event), EmptyDict)
        ELSE IF event.httpMethod = "PUT" /\ path_note_id(event) # ""
        THEN update_note(path_note_id(event), event.body)
        ELSE IF event.httpMethod = "DELETE" /\ path_note_id(event) # ""
        THEN Call("delete_item", path_note_id(event), EmptyDict)
        ELSE notes_response(400, PyMessage("Unsupported route or method")))

\* create_note, get_note, update_note, delete_note and get_all_notes, from
\* the return of their table call to lambda_handler's response.
create_note_return(item, res) ==
    IF res.exc # "" THEN Raise(res.exc, res.code) ELSE notes_response(201, PyDict(item))
\* get_note without the test for the record being there.
get_note_return_found(res) ==
    IF res.exc # "" THEN Raise(res.exc, res.code)
    ELSE notes_response(200, PyDict(res.item))
get_note_return(res) ==
    IF res.exc # "" THEN Raise(res.exc, res.code)
    ELSE IF res.item # EmptyDict THEN notes_response(200, PyDict(res.item))
    ELSE notes_response(404, PyNone)
update_note_return(res) ==
    IF res.exc # "" THEN Raise(res.exc, res.code)
    ELSE IF res.item # EmptyDict THEN notes_response(200, PyDict(res.item))
    ELSE notes_response(404, PyNone)
delete_note_return(note_id, res) ==
    IF res.exc # "" THEN Raise(res.exc, res.code)
    ELSE notes_response(200, PyMessage("Note deleted successfully"))
get_all_notes_return(items) == notes_response(200, PyList(items))

\* ----------------------------------------------------------------- events
Methods == {"GET", "POST", "PUT", "DELETE", "PATCH"}
\* The route of the event: /notes or /items, /notes/{noteId} or
\* /items/{itemID}, or anything else.
Resources == {"collection", "item", "other"}

\* The values a caller puts in a required field: a text, a whole number or
\* a number with a fraction.
NameValues == {PyStr("A"), PyInt("5"), PyFloat("1.5")}
DescriptionValues == {PyStr("B")}
ContentValues == {PyStr("A"), PyInt("5"), PyFloat("1.5")}

\* The identifier field a caller may put in a body, or leave out.
IdentifierValues == {None, PyStr(Stranger)}

\* JSON objects with each field given or left out.
Objects(v) ==
    IF v = "A"
    THEN {[EmptyDict EXCEPT !["noteId"] = i, !["content"] = c] :
             i \in IdentifierValues, c \in ContentValues \cup {None}}
    ELSE {[EmptyDict EXCEPT !["itemID"] = i, !["name"] = n, !["description"] = d] :
             i \in IdentifierValues, n \in NameValues \cup {None},
             d \in DescriptionValues \cup {None}}
Bodies(v) ==
    {Body(k, EmptyDict) : k \in {"None", "absent", "empty", "malformed", "array", "number"}}
    \cup {Body("object", o) : o \in Objects(v)}

Event(m, r, id, b) == [httpMethod |-> m, resource |-> r, id |-> id, body |-> b]
NoEvent == Event("", "", "", Body("None", EmptyDict))
\* A create or an update carries a body; the item route carries the
\* identifier path parameter, which may be empty, or no path parameters.
EventsOf(v) ==
    {e \in [httpMethod : Methods, resource : Resources, id : PathIds \cup {"", NoParameters},
            body : Bodies(v)] :
        /\ (e.resource # "item" => e.id = "")
        /\ (e.body.kind # "None" =>
              \/ e.httpMethod = "POST" /\ e.resource = "collection"
              \/ e.httpMethod = "PUT" /\ e.resource = "item")}
EventsA == EventsOf("A")
EventsB == EventsOf("B")
Events(v) == IF v = "A" THEN EventsA ELSE EventsB

\* The requests of well-behaved callers: the five operations on their own
\* routes, a create and an update with every required field.
WellFormed(v) ==
    {e \in Events(v) :
        \/ e.resource = "collection" /\ e.httpMethod = "GET"
        \/ e.resource = "collection" /\ e.httpMethod = "POST" /\ e.body.kind = "object"
              /\ \A a \in Required(v) : e.body.fields[a] # None
        \/ e.resource = "item" /\ e.id \in PathIds /\ e.httpMethod \in {"GET", "DELETE"}
        \/ e.resource = "item" /\ e.id \in PathIds /\ e.httpMethod = "PUT" /\ e.body.kind = "object"
              /\ \A a \in Required(v) : e.body.fields[a] # None}
WellFormedA == WellFormed("A")
WellFormedB == WellFormed("B")

\* ------------------------------------------------------------- invocations
Invocation(pc, event, key, item, items, lek, calls, raised, response) ==
    [pc |-> pc, event |-> event, key |-> key, item |-> item, items |-> items, lek |-> lek,
     calls |-> calls, raised |-> raised, response |-> response]
Idle == Invocation("idle", NoEvent, "", EmptyDict, <<>>, "", 0, <<"", "">>, NoResponse)

\* The except clauses of the deployed variant's lambda_handler.
Except(v, step) == IF v = "A" THEN notes_handler_except(step) ELSE api_handler_except(step)

\* Invocation p returns: its response, after one more table call that
\* raised what res says.
Returned(p, step, res) ==
    [inv[p] EXCEPT !.pc = "done", !.calls = @ + 1, !.raised = <<res.exc, res.code>>,
                   !.response = Except(variant, step).response]

\* The table call failed for a reason of the store's own.
StoreFailed(raised) == raised[1] = "ClientError" /\ raised[2] # "ConditionalCheckFailedException"

\* What is known of the requests on one identifier, in the order in which
\* they took effect:
\*   stage    how far the sequence create(name A, description B), read-one,
\*            delete, read-one has come, nothing else having been asked of
\*            the identifier since the create;
\*   created  the body the create answered with, while no update or delete
\*            has reached the record since;
\*   deletes  how many deletes have succeeded since the last create (2: two
\*            or more).
NoHistory == [stage |-> 0, created |-> EmptyString, deletes |-> 0]
Observe(h, op, item, raised, response) ==
    [stage |->
        CASE StoreFailed(raised) -> 0
          [] op = "create" ->
                IF /\ response.statusCode = 201
                   /\ item["name"] = PyStr("A") /\ item["description"] = PyStr("B")
                THEN 1 ELSE 0
          [] op = "get" -> IF h.stage \in {1, 3} THEN h.stage + 1 ELSE 0
          [] op = "delete" -> IF h.stage = 2 THEN 3 ELSE 0
          [] OTHER -> 0,
     created |->
        CASE op = "create" /\ response.statusCode = 201 -> response.body
          [] op \in {"update", "delete"} /\ ~StoreFailed(raised) -> EmptyString
          [] OTHER -> h.created,
     deletes |->
        CASE op = "create" -> 0
          [] op = "delete" /\ response.statusCode \in {200, 204} ->
                IF h.deletes < 2 THEN h.deletes + 1 ELSE 2
          [] OTHER -> h.deletes]

\* The history after a request on id, for the identifiers that are watched.
Noted(watched, id, op, item, raised, response) ==
    IF id \in watched
    THEN [history EXCEPT ![id] = Observe(@, op, item, raised, response)]
    ELSE history

Init ==
    /\ variant \in Variants
    /\ table = [k \in {} |-> EmptyDict]
    /\ generated = {}
    /\ inv = [p \in Procs |-> Idle]
    /\ history = [id \in PathIds |-> NoHistory]

\* What uuid.uuid4() returns next: an identifier it has not returned before
\* ("" when the model has none left).
uuid4 ==
    IF UUIDs \ generated = {} THEN ""
    ELSE CHOOSE u \in UUIDs \ generated : \A w \in UUIDs \ generated : Rank(u) <= Rank(w)

\* lambda_handler is invoked with an event: it routes, validates, and either
\* returns at once or goes on to its table call. The callers wait for the
\* invocations in busy to end before they send the request.
lambda_handler(p, events, busy, watched) ==
    /\ inv[p].pc = "idle"
    /\ \A q \in busy : inv[q].pc = "idle"
    /\ \E event \in events :
         LET step == IF variant = "A" THEN notes_handler_lambda_handler(event, uuid4)
                     ELSE api_handler_lambda_handler(event, uuid4)
         IN /\ step.api = "put_item" => uuid4 # ""
            /\ inv' = [inv EXCEPT ![p] =
                         IF step.kind = "call"
                         THEN Invocation(step.api, event, step.key, step.item, <<>>, "", 0,
                                         <<"", "">>, NoResponse)
                         ELSE Invocation("done", event, "", EmptyDict, <<>>, "", 0,
                                         <<"", "">>, step.response)]
            /\ generated' = IF step.api = "put_item" THEN generated \cup {uuid4} ELSE generated
            /\ history' = IF step.kind # "call"
                          THEN Noted(watched, event.id, "rejected", EmptyDict, <<"", "">>,
                                     step.response)
                          ELSE history
    /\ UNCHANGED <<variant, table>>

\* create_note / create_item: table.put_item and the return.
put_item(p, faults, watched) ==
    /\ inv[p].pc = "put_item"
    /\ \E fault \in faults :
         LET res == table_put_item(table, inv[p].key, inv[p].item, fault)
             step == IF variant = "A" THEN create_note_return(inv[p].item, res)
                     ELSE create_item_return(inv[p].item, res)
             now == Returned(p, step, res)
         IN /\ table' = res.table
            /\ inv' = [inv EXCEPT ![p] = now]
            /\ history' = Noted(watched, inv[p].key, "create", inv[p].item, now.raised, now.response)
    /\ UNCHANGED <<variant, generated>>

\* get_note / get_item: table.get_item and the return.
get_item(p, faults, watched) ==
    /\ inv[p].pc = "get_item"
    /\ \E fault \in faults :
         LET res == table_get_item(table, inv[p].key, fault)
             step == IF variant = "A" THEN get_note_return(res)
                     ELSE get_item_return(inv[p].key, res)
             now == Returned(p, step, res)
         IN /\ table' = res.table
            /\ inv' = [inv EXCEPT ![p] = now]
            /\ history' = Noted(watched, inv[p].key, "get", EmptyDict, now.raised, now.response)
    /\ UNCHANGED <<variant, generated>>

\* update_note / update_item: table.update_item and the return.
update_item_call(p, faults, watched) ==
    /\ inv[p].pc = "update_item"
    /\ \E fault \in faults :
         LET res == table_update_item(table, KeyAttr(variant), inv[p].key, inv[p].item, fault)
             step == IF variant = "A" THEN update_note_return(res)
                     ELSE update_item_return(res)
             now == Returned(p, step, res)
         IN /\ table' = res.table
            /\ inv' = [inv EXCEPT ![p] = now]
            /\ history' = Noted(watched, inv[p].key, "update", EmptyDict, now.raised, now.response)
    /\ UNCHANGED <<variant, generated>>

\* delete_note / delete_item: table.delete_item and the return.
delete_item(p, faults, watched) ==
    /\ inv[p].pc = "delete_item"
    /\ \E fault \in faults :
         LET res == IF variant = "A" THEN table_delete_item(table, inv[p].key, fault)
                    ELSE table_delete_item_if_exists(table, inv[p].key, fault)
             step == IF variant = "A" THEN delete_note_return(inv[p].key, res)
                     ELSE delete_item_return(inv[p].key, res)
             now == Returned(p, step, res)
         IN /\ table' = res.table
            /\ inv' = [inv EXCEPT ![p] = now]
            /\ history' = Noted(watched, inv[p].key, "delete", EmptyDict, now.raised, now.response)
    /\ UNCHANGED <<variant, generated>>

\* get_all_notes / get_all_items: one table.scan; the loop goes on while
\* the page carries a LastEvaluatedKey, and returns when it does not.
scan(p, faults) ==
    /\ inv[p].pc = "scan"
    /\ \E fault \in faults :
         LET res == table_scan(table, inv[p].lek, fault)
             items == inv[p].items \o res.items
             step == IF res.exc # "" THEN Raise(res.exc, res.code)
                     ELSE IF variant = "A" THEN get_all_notes_return(items)
                     ELSE get_all_items_return(items)
         IN inv' = [inv EXCEPT ![p] =
                      IF res.exc = "" /\ res.lek # ""
                      THEN [@ EXCEPT !.items = items, !.lek = res.lek, !.calls = @ + 1]
                      ELSE [Returned(p, step, res) EXCEPT !.items = items]]
    /\ UNCHANGED <<variant, table, generated, history>>

\* The response has gone back to the caller; the invocation is over.
invocation_ends(p) ==
    /\ inv[p].pc = "done"
    /\ inv' = [inv EXCEPT ![p] = Idle]
    /\ UNCHANGED <<variant, table, generated, history>>

\* Callers that send any request at all, one request at a time; every table
\* call may fail.
Next ==
    \E p \in Procs :
        \/ lambda_handler(p, Events(variant), Procs \ {p}, PathIds)
        \/ put_item(p, BOOLEAN, PathIds)
        \/ get_item(p, BOOLEAN, PathIds)
        \/ update_item_call(p, BOOLEAN, PathIds)
        \/ delete_item(p, BOOLEAN, PathIds)
        \/ scan(p, BOOLEAN)
        \/ invocation_ends(p)

Spec == Init /\ [][Next]_vars

\* Concurrent invocations of well-formed requests against a table that
\* answers: their table calls interleave in every order. No history is kept.
NextConcurrent ==
    \E p \in Procs :
        \/ lambda_handler(p, IF variant = "A" THEN WellFormedA ELSE WellFormedB, {}, {})
        \/ put_item(p, {FALSE}, {})
        \/ get_item(p, {FALSE}, {})
        \/ update_item_call(p, {FALSE}, {})
        \/ delete_item(p, {FALSE}, {})
        \/ scan(p, {FALSE})
        \/ invocation_ends(p)

SpecConcurrent == Init /\ [][NextConcurrent]_vars

\* ------------------------------------------------------------------ claims
\* Invocation p takes its last step: from waiting on table call api to done.
Completes(p, api) == inv[p].pc = api /\ inv'[p].pc = "done"
\* Invocation p is done and no table call of it failed for a reason of the
\* store's own.
Answered(p) == inv[p].pc = "done" /\ ~StoreFailed(inv[p].raised)
\* The JSON text of the variant B record (itemID id, name n, description d).
ItemText(id, n, d) ==
    [type |-> "object",
     items |-> <<[a \in Attrs |-> CASE a = "itemID" -> <<"string", id>>
                                    [] a = "name" -> n
                                    [] a = "description" -> d
                                    [] OTHER -> <<"null", "">>]>>,
     message |-> ""]
PostAB == Event("POST", "collection", "",
                Body("object", [EmptyDict EXCEPT !["name"] = PyStr("A"),
                                                 !["description"] = PyStr("B")]))

\* C1: variant B, the table answering: POST /items {name A, description B}
\* returns 201 and the record (generated itemID, A, B); the GET of that
\* itemID that follows returns 200 and the same record; the DELETE that
\* follows returns 204; the GET that follows returns 404 (history[id].stage
\* counts these steps and falls to 0 at any other request on the itemID).
C1_Lifecycle ==
    [][variant = "B" =>
        \A p \in Procs :
            /\ (inv'[p].event = PostAB /\ inv'[p].pc = "done"
                /\ ~StoreFailed(inv'[p].raised)) =>
                  /\ inv'[p].response.statusCode = 201
                  /\ inv'[p].key \in UUIDs
                  /\ inv'[p].response.body =
                        ItemText(inv'[p].key, <<"string", "A">>, <<"string", "B">>)
            /\ (Completes(p, "get_item") /\ history[inv[p].key].stage = 1
                /\ ~StoreFailed(inv'[p].raised)) =>
                  /\ inv'[p].response.statusCode = 200
                  /\ inv'[p].response.body =
                        ItemText(inv[p].key, <<"string", "A">>, <<"string", "B">>)
            /\ (Completes(p, "delete_item") /\ history[inv[p].key].stage = 2
                /\ ~StoreFailed(inv'[p].raised)) =>
                  inv'[p].response.statusCode = 204
            /\ (Completes(p, "get_item") /\ history[inv[p].key].stage = 3
                /\ ~StoreFailed(inv'[p].raised)) =>
                  inv'[p].response.statusCode = 404]_vars

\* The whole sequence has run on one itemID, and its last GET is answered.
C1_Witness ==
    \E p \in Procs :
        /\ variant = "B" /\ Answered(p)
        /\ inv[p].event.httpMethod = "GET" /\ inv[p].key \in UUIDs
        /\ history[inv[p].key].stage = 4
        /\ inv[p].response.statusCode = 404

\* C2: both variants, the table answering: once a create has answered with
\* record r under identifier id, and no update or delete has reached id
\* since, read-one(id) returns 200 and a body equal to r on every field.
C2_RoundTrip ==
    [][\A p \in Procs :
          (/\ Completes(p, "get_item")
           /\ history[inv[p].key].created # EmptyString
           /\ ~StoreFailed(inv'[p].raised)) =>
             /\ inv'[p].response.statusCode = 200
             /\ inv'[p].response.body = history[inv[p].key].created]_vars

\* The request is a create / an update (on an identifier).
IsCreate(e) == e.httpMethod = "POST" /\ e.resource = "collection"
IsUpdate(e) == e.httpMethod = "PUT" /\ e.resource = "item" /\ e.id \in PathIds
\* The body parses to a structured record that lacks a required field.
LacksField(v, b) == b.kind = "object" /\ \E a \in Required(v) : b.fields[a] = None

\* C3: both variants: a create whose body parses but lacks a required field
\* is answered with 400 and makes no table call.
C3_MissingFieldIs400 ==
    \A p \in Procs :
        (inv[p].pc # "idle" /\ IsCreate(inv[p].event) /\ LacksField(variant, inv[p].event.body)) =>
            /\ inv[p].pc = "done"
            /\ inv[p].calls = 0
            /\ inv[p].response.statusCode = 400

\* The body is absent (null), empty, or not parseable as a structured record.
Unstructured(b) == b.kind \in {"None", "empty", "malformed", "array", "number"}

\* C4: both variants: a create or an update whose body is absent (null),
\* empty or not parseable as a structured record is answered with 400,
\* never with 500, and makes no table call.
C4_BadBodyIs400 ==
    \A p \in Procs :
        (/\ inv[p].pc # "idle"
         /\ IsCreate(inv[p].event) \/ IsUpdate(inv[p].event)
         /\ Unstructured(inv[p].event.body)) =>
            /\ inv[p].pc = "done"
            /\ inv[p].calls = 0
            /\ inv[p].response.statusCode = 400

\* C5: both variants: an update whose table call finds no record under the
\* identifier returns 500 and leaves the table as it was: no record appears
\* under the identifier.
C5_UpdateOfAbsentIs500 ==
    [][\A p \in Procs :
          (Completes(p, "update_item") /\ inv[p].key \notin DOMAIN table) =>
             /\ inv'[p].response.statusCode = 500
             /\ table' = table]_vars

\* An update of an identifier the table does not hold has been answered,
\* the store having refused it for the failed condition.
C5_Witness ==
    \E p \in Procs :
        /\ inv[p].pc = "done" /\ IsUpdate(inv[p].event)
        /\ inv[p].raised = <<"ClientError", "ConditionalCheckFailedException">>
        /\ inv[p].key \notin DOMAIN table
        /\ inv[p].response.statusCode = 500

\* C6: under every interleaving of concurrent invocations, the existence
\* check and the write of an update are one step of the table: an update
\* returns 200 only if the record was there at that step, no update changes
\* which identifiers the table holds, and a record appears under an
\* identifier only by the put of a create, so that after a delete no
\* concurrent or later update brings the record back.
C6_UpdateIsAtomic ==
    [][/\ \A p \in Procs :
             Completes(p, "update_item") =>
                /\ inv'[p].response.statusCode = 200 => inv[p].key \in DOMAIN table
                /\ DOMAIN table' = DOMAIN table
       /\ \A id \in DOMAIN table' \ DOMAIN table :
             \E q \in Procs : Completes(q, "put_item") /\ inv[q].key = id]_vars

\* A delete and an update of one identifier have both been answered: the
\* delete took effect, the update found no record, and none is there.
C6_Witness ==
    \E p, q \in Procs :
        /\ p # q /\ inv[p].pc = "done" /\ inv[q].pc = "done"
        /\ inv[p].event.httpMethod = "DELETE" /\ inv[q].event.httpMethod = "PUT"
        /\ inv[p].key = inv[q].key /\ inv[p].key \in generated
        /\ inv[p].response.statusCode \in {200, 204}
        /\ inv[q].raised = <<"ClientError", "ConditionalCheckFailedException">>
        /\ inv[q].response.statusCode = 500
        /\ inv[p].key \notin DOMAIN table

\* C7: the table answering: in variant A every delete returns 200, whether
\* or not the record is there; in variant B a delete of an identifier of
\* which an earlier delete returned 204, no create in between, returns 404.
C7_DeleteIdempotence ==
    [][\A p \in Procs :
          (Completes(p, "delete_item") /\ ~StoreFailed(inv'[p].raised)) =>
             /\ variant = "A" => inv'[p].response.statusCode = 200
             /\ (variant = "B" /\ history[inv[p].key].deletes >= 1) =>
                   inv'[p].response.statusCode = 404]_vars

\* Variant B: a second delete of an identifier has been answered with 404.
C7_Witness ==
    \E p \in Procs :
        /\ variant = "B" /\ Answered(p) /\ inv[p].event.httpMethod = "DELETE"
        /\ inv[p].key \in PathIds /\ history[inv[p].key].deletes = 1
        /\ inv[p].response.statusCode = 404
\* Variant A: a second delete of an identifier has been answered with 200.
C7_RepeatedDeleteA ==
    \E p \in Procs :
        /\ variant = "A" /\ Answered(p) /\ inv[p].event.httpMethod = "DELETE"
        /\ inv[p].key \in PathIds /\ history[inv[p].key].deletes = 2
        /\ inv[p].response.statusCode = 200

\* json.dumps({}): the JSON text of the record with no field and no message.
EmptyObjectText ==
    [type |-> "object", items |-> <<[a \in Attrs |-> <<"null", "">>]>>, message |-> ""]

\* C8: variant B: a delete of an absent identifier returns 404 with the
\* message and leaves the table as it was; a delete of a present identifier
\* removes that record and no other and returns 204 with an empty body (the
\* JSON text of the empty record, no field and no message); a failure of
\* the store of any other kind is not answered with 404, and changes nothing.
C8_ConditionalDelete ==
    [][variant = "B" =>
        \A p \in Procs :
            Completes(p, "delete_item") =>
                LET k == inv[p].key
                    r == inv'[p].response
                    failed == StoreFailed(inv'[p].raised)
                IN /\ (~failed /\ k \notin DOMAIN table) =>
                        /\ r.statusCode = 404
                        /\ r.body.message = "Item not found"
                        /\ table' = table
                   /\ (~failed /\ k \in DOMAIN table) =>
                        /\ r.statusCode = 204
                        /\ r.body = EmptyObjectText
                        /\ DOMAIN table' = DOMAIN table \ {k}
                        /\ \A j \in DOMAIN table' : table'[j] = table[j]
                   /\ failed => (r.statusCode = 500 /\ table' = table)]_vars

\* Variant B: a delete has removed one record and left another.
C8_Witness ==
    \E p \in Procs :
        /\ variant = "B" /\ Answered(p) /\ inv[p].event.httpMethod = "DELETE"
        /\ inv[p].response.statusCode = 204
        /\ inv[p].key \in generated /\ inv[p].key \notin DOMAIN table
        /\ DOMAIN table # {}

\* C9: both variants: a read-one of an identifier that was never created
\* makes exactly one table call, changes nothing in the table, and, the
\* table answering, returns 404 (variant B: with the message as its body).
C9_ReadOfUnknownIs404 ==
    [][\A p \in Procs :
          /\ inv'[p].pc = "get_item" => inv'[p].calls = 0
          /\ (Completes(p, "get_item") /\ inv[p].key \notin generated) =>
                /\ inv'[p].calls = 1
                /\ table' = table
                /\ ~StoreFailed(inv'[p].raised) =>
                      /\ inv'[p].response.statusCode = 404
                      /\ variant = "B" => inv'[p].response.body.message = "Item not found"
                      /\ variant = "A" => inv'[p].response.body = EmptyString]_vars

\* A read-one of an identifier no create ever returned has been answered.
C9_Witness ==
    \E p \in Procs :
        /\ Answered(p) /\ inv[p].event.httpMethod = "GET" /\ inv[p].event.resource = "item"
        /\ inv[p].key = Stranger /\ inv[p].key \notin generated
        /\ inv[p].calls = 1 /\ inv[p].response.statusCode = 404

\* The table call the dispatch table gives a method/route combination ("":
\* none, the combination is not supported).
Operation(e) ==
    CASE e.resource = "collection" /\ e.httpMethod = "POST" -> "put_item"
      [] e.resource = "collection" /\ e.httpMethod = "GET" -> "scan"
      [] e.resource = "item" /\ e.httpMethod = "GET" -> "get_item"
      [] e.resource = "item" /\ e.httpMethod = "PUT" -> "update_item"
      [] e.resource = "item" /\ e.httpMethod = "DELETE" -> "delete_item"
      [] OTHER -> ""
TableCalls == {"put_item", "scan", "get_item", "update_item", "delete_item"}

\* C10 as stated: a request is only ever sent to the operation of its
\* method/route combination, and every other combination is rejected with
\* 400 in variant A and with 404 in variant B, without a table call.
C10_Dispatch ==
    \A p \in Procs :
        LET e == inv[p].event
        IN inv[p].pc # "idle" =>
             /\ inv[p].pc \in TableCalls => inv[p].pc = Operation(e)
             /\ Operation(e) = "" =>
                   /\ inv[p].pc = "done" /\ inv[p].calls = 0
                   /\ inv[p].response.statusCode = IF variant = "A" THEN 400 ELSE 404

\* C10 as amended: a request is only ever sent to the operation of its
\* method/route combination; a list, and a read-one or delete that carries
\* an identifier, always get to their table call; every request of another
\* combination, and every request on the item route that carries no
\* identifier, is rejected without a table call. The rejection is 400 in
\* variant A. In variant B it is 404 when the route is neither of the two,
\* 405 when the method is not one of the route's and the route is the
\* collection or the item route with an identifier, 400 on the item route
\* when the identifier is missing or empty, and 500 on the item route when
\* the event's path parameters are null.
C10_DispatchAmended ==
    \A p \in Procs :
        LET e == inv[p].event
            rejected == inv[p].pc = "done" /\ inv[p].calls = 0
            anonymous == e.resource = "item" /\ e.id \notin PathIds
        IN inv[p].pc # "idle" =>
             /\ inv[p].pc \in TableCalls => inv[p].pc = Operation(e)
             /\ inv[p].pc \in TableCalls \ {"scan"} => inv[p].calls = 0
             /\ (Operation(e) = "scan" \/ (Operation(e) \in {"get_item", "delete_item"} /\ ~anonymous))
                   => ~rejected
             /\ (Operation(e) = "" \/ anonymous) =>
                   /\ rejected
                   /\ inv[p].response.statusCode =
                         CASE variant = "A" -> 400
                           [] e.resource = "other" -> 404
                           [] e.resource = "item" /\ e.id = NoParameters -> 500
                           [] e.resource = "item" /\ e.id = "" -> 400
                           [] OTHER -> 405

\* Variant B has rejected a method its collection route does not support.
C10_Witness ==
    \E p \in Procs :
        /\ variant = "B" /\ inv[p].pc = "done" /\ inv[p].calls = 0
        /\ inv[p].event.resource = "collection" /\ inv[p].event.httpMethod = "PUT"
        /\ inv[p].response.statusCode = 405

\* The JSON text of a sequence of records as the caller gave them: an
\* array of objects, a text field a string, a numeric field a number.
Shown(x) ==
    CASE x[1] = "str" -> <<"string", x[2]>>
      [] x[1] \in {"int", "float", "Decimal"} -> <<"number", x[2]>>
      [] OTHER -> <<"null", "">>
RecordsText(s) ==
    [type |-> "array", items |-> [i \in 1..Len(s) |-> [a \in Attrs |-> Shown(s[i][a])]],
     message |-> ""]

\* C11: the table answering, a list that gets a page with a continuation
\* token keeps the page's records after those it has and asks for the page
\* after the token; a list that gets a page without a token returns 200
\* with all the pages' records, each once, in the order of the pages, and
\* has made exactly one scan call when that page was its first.
C11_ListPagination ==
    [][\A p \in Procs :
          (inv[p].pc = "scan" /\ inv'[p] # inv[p] /\ ~StoreFailed(inv'[p].raised)) =>
             LET page == table_scan(table, inv[p].lek, FALSE)
                 all == inv[p].items \o page.items
             IN IF page.lek # ""
                THEN /\ inv'[p].pc = "scan" /\ inv'[p].lek = page.lek
                     /\ inv'[p].items = all /\ inv'[p].calls = inv[p].calls + 1
                ELSE /\ inv'[p].pc = "done"
                     /\ inv'[p].response.statusCode = 200
                     /\ inv'[p].response.body = RecordsText(all)
                     /\ inv[p].lek = "" => inv'[p].calls = 1]_vars

\* C12: both variants: the table answering, a list of an empty table
\* returns 200 with the empty sequence of records, an array of no element,
\* as its body.
C12_EmptyList ==
    [][\A p \in Procs :
          (Completes(p, "scan") /\ DOMAIN table = {} /\ ~StoreFailed(inv'[p].raised)) =>
             /\ inv'[p].response.statusCode = 200
             /\ inv'[p].response.body = RecordsText(<<>>)]_vars

\* The JSON text of one record as the caller gave it.
RecordText(r) ==
    [type |-> "object", items |-> <<[a \in Attrs |-> Shown(r[a])]>>, message |-> ""]
\* The record under identifier id with the required fields of fields.
RecordOf(id, fields) ==
    [a \in Attrs |-> IF a = KeyAttr(variant) THEN PyStr(id)
                     ELSE IF a \in Required(variant) THEN fields[a] ELSE None]

\* C13: both variants: the table answering, an update with a valid body of
\* an identifier that is in the table returns 200 with the full record
\* after the update, its required fields those the caller gave; the table
\* holds the same identifiers as before, the record keeps its identifier
\* and has the caller's fields, and no other record has changed.
C13_UpdateFrame ==
    [][\A p \in Procs :
          (/\ Completes(p, "update_item") /\ inv[p].key \in DOMAIN table
           /\ ~StoreFailed(inv'[p].raised)) =>
             LET k == inv[p].key
             IN /\ inv'[p].response.statusCode = 200
                /\ inv'[p].response.body = RecordText(RecordOf(k, inv[p].item))
                /\ DOMAIN table' = DOMAIN table
                /\ table'[k][KeyAttr(variant)] = table[k][KeyAttr(variant)]
                /\ \A a \in Required(variant) : Shown(table'[k][a]) = Shown(inv[p].item[a])
                /\ \A j \in DOMAIN table \ {k} : table'[j] = table[j]]_vars

\* C14: both variants: the table answering, a create whose payload passed
\* validation returns 201 with the record made of the generated identifier
\* and the caller's required fields, after exactly one table call, a put
\* that leaves that record under that identifier and every other record as
\* it was.
C14_CreateWritesRecord ==
    [][\A p \in Procs :
          (Completes(p, "put_item") /\ ~StoreFailed(inv'[p].raised)) =>
             LET k == inv[p].key
             IN /\ k \in generated
                /\ inv'[p].response.statusCode = 201
                /\ inv'[p].response.body = RecordText(RecordOf(k, inv[p].event.body.fields))
                /\ inv'[p].calls = 1
                /\ k \in DOMAIN table'
                /\ RecordText(table'[k]) = inv'[p].response.body
                /\ \A j \in DOMAIN table \ {k} : j \in DOMAIN table' /\ table'[j] = table[j]]_vars

\* C16: both variants: every record in the table has the key it is stored
\* under as its identifier field; a create writes under the generated
\* identifier, never under the one in its body, and an update leaves the
\* identifier field of its record as it was, whatever its body carries.
C16_IdentifierIsKey ==
    [][/\ \A k \in DOMAIN table' : table'[k][KeyAttr(variant)] = PyStr(k)
       /\ \A p \in Procs :
             /\ Completes(p, "put_item") =>
                   /\ inv[p].key \in generated
                   /\ PyStr(inv[p].key) # inv[p].event.body.fields[KeyAttr(variant)]
                   /\ DOMAIN table' \subseteq DOMAIN table \cup {inv[p].key}
             /\ (Completes(p, "update_item") /\ inv[p].key \in DOMAIN table) =>
                   table'[inv[p].key][KeyAttr(variant)] = table[inv[p].key][KeyAttr(variant)]]_vars

\* A create whose body carried an identifier of the caller's has returned
\* 201, and the record is under the generated identifier, not the caller's.
C16_Witness ==
    \E p \in Procs :
        /\ Answered(p) /\ IsCreate(inv[p].event)
        /\ inv[p].event.body.fields[KeyAttr(variant)] = PyStr(Stranger)
        /\ inv[p].response.statusCode = 201
        /\ inv[p].key \in DOMAIN table /\ Stranger \notin DOMAIN table
\* An update whose body carried an identifier of the caller's has returned
\* 200, and the record has the identifier it had.
C16_UpdateKeepsIdentifier ==
    \E p \in Procs :
        /\ Answered(p) /\ IsUpdate(inv[p].event)
        /\ inv[p].event.body.fields[KeyAttr(variant)] = PyStr(Stranger)
        /\ inv[p].response.statusCode = 200
        /\ inv[p].key \in DOMAIN table /\ Stranger \notin DOMAIN table
        /\ table[inv[p].key][KeyAttr(variant)] = PyStr(inv[p].key)

\* The status codes of the two variants, and their header set.
StatusCodes == {200, 201, 204, 400, 404, 405, 500}
Headers(v) == IF v = "A" THEN HeadersA ELSE HeadersB

\* C17: both variants: every invocation that has ended has returned a
\* response with a status code and the variant's fixed header set, whatever
\* the request was and whatever its table call did; and when the table call
\* raised, the status is 500, unless the call is variant B's delete and the
\* exception the failed condition, which is the one failure a handler
\* classifies.
C17_AlwaysAResponse ==
    \A p \in Procs :
        inv[p].pc = "done" =>
            /\ inv[p].response.statusCode \in StatusCodes
            /\ inv[p].response.headers = Headers(variant)
            /\ inv[p].response.headers # {}
            /\ (/\ inv[p].raised[1] # ""
                /\ ~(/\ variant = "B" /\ inv[p].event.httpMethod = "DELETE"
                     /\ inv[p].raised = <<"ClientError", "ConditionalCheckFailedException">>))
                  => inv[p].response.statusCode = 500

\* A list whose scan failed in the store has been answered with 500.
C17_Witness ==
    \E p \in Procs :
        /\ inv[p].pc = "done" /\ inv[p].event.httpMethod = "GET"
        /\ inv[p].event.resource = "collection"
        /\ StoreFailed(inv[p].raised)
        /\ inv[p].response.statusCode = 500
        /\ inv[p].response.headers = Headers(variant)

\* The request is a delete of an identifier.
IsDelete(e) == e.httpMethod = "DELETE" /\ e.resource = "item" /\ e.id \in PathIds
\* The request is a create, update or delete that passes validation: a
\* delete always, a create or update with a structured body that has every
\* required field.
PassesValidation(e) ==
    \/ IsDelete(e)
    \/ /\ IsCreate(e) \/ IsUpdate(e)
       /\ e.body.kind = "object"
       /\ \A a \in Required(variant) : e.body.fields[a] # None

\* C18: both variants: an invocation for a create, update or delete waits
\* for a table call only if the request passed validation, and has made no
\* call before it; once it has ended it has made exactly one table call if
\* the request passed validation, also when that call raised, and none if
\* it did not.
C18_OneStoreCall ==
    \A p \in Procs :
        LET e == inv[p].event
        IN (inv[p].pc # "idle" /\ (IsCreate(e) \/ IsUpdate(e) \/ IsDelete(e))) =>
              /\ inv[p].pc \in TableCalls =>
                    /\ PassesValidation(e) /\ inv[p].calls = 0
                    /\ inv[p].pc \in {"put_item", "update_item", "delete_item"}
              /\ inv[p].pc = "done" =>
                    inv[p].calls = IF PassesValidation(e) THEN 1 ELSE 0

\* An update that passed validation has ended after one table call, which
\* failed in the store.
C18_Witness ==
    \E p \in Procs :
        /\ inv[p].pc = "done" /\ IsUpdate(inv[p].event) /\ PassesValidation(inv[p].event)
        /\ StoreFailed(inv[p].raised) /\ inv[p].calls = 1

\* C19: both variants, under every interleaving of concurrent invocations:
\* every record in the table has its identifier and every required field of
\* its variant.
C19_RecordsComplete ==
    \A k \in DOMAIN table :
        /\ table[k][KeyAttr(variant)] # None
        /\ \A a \in Required(variant) : table[k][a] # None

\* An update has raced with a delete of the same record and lost: the delete
\* took effect, the update found no record, nothing is left under the
\* identifier, and the table holds another record.
C19_Witness ==
    \E p, q \in Procs :
        /\ inv[p].pc = "done" /\ IsDelete(inv[p].event)
        /\ inv[q].pc = "done" /\ IsUpdate(inv[q].event)
        /\ inv[p].event.id = inv[q].event.id
        /\ inv[p].response.statusCode \in {200, 204}
        /\ inv[q].response.statusCode = 500
        /\ inv[q].raised[2] = "ConditionalCheckFailedException"
        /\ inv[p].event.id \in generated \ DOMAIN table
        /\ DOMAIN table # {}

\* C20: variant B, two invocations deleting one identifier, under every
\* interleaving: the delete that reaches the table first, the record being
\* there, returns 204 and removes the record; the delete that reaches the
\* table after the other returned 204 returns 404, and the record stays
\* absent; so exactly one of the two returns 204 and the other 404.
C20_ConcurrentDeletes ==
    [][variant = "B" =>
        \A p, q \in Procs :
            (/\ p # q /\ Completes(p, "delete_item")
             /\ IsDelete(inv[q].event) /\ inv[q].event.id = inv[p].key) =>
                LET k == inv[p].key
                IN /\ (inv[q].pc = "delete_item" /\ k \in DOMAIN table) =>
                        /\ inv'[p].response.statusCode = 204
                        /\ k \notin DOMAIN table'
                   /\ (inv[q].pc = "done" /\ inv[q].response.statusCode = 204) =>
                        /\ inv'[p].response.statusCode = 404
                        /\ k \notin DOMAIN table']_vars

\* Variant B: two deletes of one record have both been answered, one with
\* 204 and the other with 404, and the record is gone.
C20_Witness ==
    \E p, q \in Procs :
        /\ variant = "B" /\ p # q
        /\ inv[p].pc = "done" /\ IsDelete(inv[p].event)
        /\ inv[q].pc = "done" /\ IsDelete(inv[q].event)
        /\ inv[p].event.id = inv[q].event.id
        /\ inv[p].event.id \in generated \ DOMAIN table
        /\ inv[p].response.statusCode = 204
        /\ inv[q].response.statusCode = 404
\* Variant B: one delete of a record has returned 204 while another delete
\* of the same record waits for its table call.
C20_Overlap ==
    \E p, q \in Procs :
        /\ variant = "B" /\ p # q
        /\ inv[p].pc = "done" /\ IsDelete(inv[p].event)
        /\ inv[q].pc = "delete_item" /\ inv[q].key = inv[p].key
        /\ inv[p].response.statusCode = 204

====
